---- MODULE Spec2Model ----
(***************************************************************************)
(* A model of sugma (src/main.rs): the marker locator find_markers, the    *)
(* affine solver get_transform and the pipeline main runs over them.       *)
(*                                                                         *)
(* f64 values are modelled exactly.  Every value get_transform computes    *)
(* from pixel coordinates lies in the field Q(sqrt d), d the product of    *)
(* the squared lengths of the two 0->1 edges, so a number is               *)
(* <<a, b, d, q>> = (a + b*sqrt(d)) / q  with q > 0, or NonFinite, the     *)
(* IEEE result (NaN or an infinity) of a division by zero.                 *)
(***************************************************************************)
EXTENDS Integers, Sequences, FiniteSets, TLC

\* ------------------------------------------------------------------ bounds
\* largest x and y coordinate of a triangle vertex handed to get_transform
MaxX == 2
MaxY == 1
\* largest width and height of a decoded image
MaxW == 2
MaxH == 2

\* ------------------------------------------------------- f64, modelled exactly
Abs(x) == IF x < 0 THEN -x ELSE x

RECURSIVE GCD(_, _)
GCD(m, n) == IF n = 0 THEN m ELSE GCD(n, m % n)

\* NaN, +inf or -inf: what IEEE division yields for a zero divisor
NonFinite == <<0, 0, 0, 0>>

is_finite(p) == p[4] # 0

\* the canonical form of (a + b*sqrt(d)) / q, q # 0
Norm(a, b, d, q) ==
    LET s == IF q < 0 THEN -1 ELSE 1
        g == GCD(GCD(Abs(a), Abs(b)), Abs(q))
    IN  <<(s * a) \div g, (s * b) \div g, IF b = 0 THEN 1 ELSE d, (s * q) \div g>>

\* u32 as f64 (main.rs:106) and the literals 0.0, 1.0
F64(n) == <<n, 0, 1, 1>>

Zero == F64(0)
One == F64(1)

\* the radicand two operands share
Radicand(p, r) == IF p[2] # 0 THEN p[3] ELSE r[3]

Add(p, r) ==
    IF ~is_finite(p) \/ ~is_finite(r) THEN NonFinite
    ELSE IF p = Zero THEN r
    ELSE IF r = Zero THEN p
    ELSE Norm(p[1] * r[4] + r[1] * p[4], p[2] * r[4] + r[2] * p[4],
              Radicand(p, r), p[4] * r[4])

Neg(p) == IF is_finite(p) THEN <<-p[1], -p[2], p[3], p[4]>> ELSE NonFinite

Sub(p, r) == Add(p, Neg(r))

\* NaN and the infinities absorb: inf * 0 is NaN, never 0
Mul(p, r) ==
    IF ~is_finite(p) \/ ~is_finite(r) THEN NonFinite
    ELSE IF p = Zero \/ r = Zero THEN Zero
    ELSE IF p = One THEN r
    ELSE IF r = One THEN p
    ELSE LET d == Radicand(p, r)
         IN  Norm(p[1] * r[1] + p[2] * r[2] * d, p[1] * r[2] + p[2] * r[1],
                  d, p[4] * r[4])

\* x / 0 is an infinity, 0 / 0 is NaN; otherwise multiply by the conjugate
Div(p, r) ==
    IF ~is_finite(p) \/ ~is_finite(r) THEN NonFinite
    ELSE IF r = Zero THEN NonFinite
    ELSE LET d == Radicand(p, r)
         IN  Norm((p[1] * r[1] - p[2] * r[2] * d) * r[4],
                  (p[2] * r[1] - p[1] * r[2]) * r[4],
                  d, p[4] * (r[1] * r[1] - r[2] * r[2] * d))

\* the integer square root, rounded down
ISqrt(n) == CHOOSE r \in 0..n : r * r <= n /\ (r + 1) * (r + 1) > n

\* c / sqrt(n) for integers c and n > 0
DivSqrt(c, n) ==
    LET r == ISqrt(n)
    IN  IF r * r = n THEN Norm(c, 0, 1, r) ELSE Norm(0, c, n, n)

\* ----------------------------------------------------- nalgebra vectors, matrices
Vector2(x, y) == <<x, y>>
Vector3(x, y, z) == <<x, y, z>>

VSub(u, v) == <<Sub(u[1], v[1]), Sub(u[2], v[2])>>

Matrix2(m11, m12, m21, m22) == <<<<m11, m12>>, <<m21, m22>>>>

Matrix3(m11, m12, m13, m21, m22, m23, m31, m32, m33) ==
    <<<<m11, m12, m13>>, <<m21, m22, m23>>, <<m31, m32, m33>>>>

Mat2MulVec(A, v) ==
    <<Add(Mul(A[1][1], v[1]), Mul(A[1][2], v[2])),
      Add(Mul(A[2][1], v[1]), Mul(A[2][2], v[2]))>>

Mat3MulVec(A, v) ==
    [i \in 1..3 |->
        Add(Add(Mul(A[i][1], v[1]), Mul(A[i][2], v[2])), Mul(A[i][3], v[3]))]

Mat3Mul(A, B) ==
    [i \in 1..3 |-> [j \in 1..3 |->
        Add(Add(Mul(A[i][1], B[1][j]), Mul(A[i][2], B[2][j])), Mul(A[i][3], B[3][j]))]]

Identity3 == Matrix3(One, Zero, Zero, Zero, One, Zero, Zero, Zero, One)

\* Matrix3::new_translation
new_translation(v) == Matrix3(One, Zero, v[1], Zero, One, v[2], Zero, Zero, One)

\* f64::atan2.  An angle is kept as a ray <<x, y>> whose polar angle it is;
\* atan2(0, 0) is 0, the ray <<1, 0>>.
atan2(y, x) == IF x = Zero /\ y = Zero THEN <<1, 0>> ELSE <<x[1], y[1]>>

\* the difference of two angles: the ray a * conj(b)
AngleSub(a, b) == <<a[1] * b[1] + a[2] * b[2], a[2] * b[1] - a[1] * b[2]>>

\* Matrix3::new_rotation: cos and sin of the ray's polar angle
new_rotation(angle) ==
    LET n == angle[1] * angle[1] + angle[2] * angle[2]
        cos == DivSqrt(angle[1], n)
        sin == DivSqrt(angle[2], n)
    IN  Matrix3(cos, Neg(sin), Zero, sin, cos, Zero, Zero, Zero, One)

\* Matrix2::try_inverse: None when the determinant is zero
None == <<>>

try_inverse(m) ==
    LET determinant == Sub(Mul(m[1][1], m[2][2]), Mul(m[2][1], m[1][2]))
    IN  IF determinant = Zero THEN None
        ELSE Matrix2(Div(m[2][2], determinant), Neg(Div(m[1][2], determinant)),
                     Neg(Div(m[2][1], determinant)), Div(m[1][1], determinant))

pad_matrix(matrix) ==
    Matrix3(matrix[1][1], matrix[1][2], Zero,
            matrix[2][1], matrix[2][2], Zero,
            Zero, Zero, One)

pad_vector(vector) == Vector3(vector[1], vector[2], One)

\* ------------------------------------------------------------- get_transform
\* the 2x2 basis of main.rs:150-155, columns output_01 and its "perpendicular"
basis_matrix(output) ==
    LET output_01 == VSub(output[2], output[1])
        rot_270_matrix == Matrix2(Zero, One, One, Zero)
        output_01_perpendicular == Mat2MulVec(rot_270_matrix, output_01)
    IN  Matrix2(output_01[1], output_01_perpendicular[1],
                output_01[2], output_01_perpendicular[2])

\* A triangle is <<v0, v1, v2>>, a vertex a Vector2.  The call either panics
\* (unwrap of None) before printing anything, or prints four matrices and
\* returns the fifth.
get_transform(input, output) ==
    LET translation_vector == VSub(output[1], input[1])
        translation_matrix == new_translation(translation_vector)
        input_01 == VSub(input[2], input[1])
        output_01 == VSub(output[2], output[1])
        input_01_angle == atan2(input_01[2], input_01[1])
        output_01_angle == atan2(output_01[2], output_01[1])
        angle_difference == AngleSub(output_01_angle, input_01_angle)
        rotation_matrix == new_rotation(angle_difference)
        inverse == try_inverse(basis_matrix(output))
    IN  IF inverse = None THEN [kind |-> "panic"]
        ELSE
        LET change_basis_matrix_2d == inverse
            unchange_basis_matrix == pad_matrix(basis_matrix(output))
            change_basis_matrix == pad_matrix(change_basis_matrix_2d)
            m == Mat3Mul(Mat3Mul(change_basis_matrix, rotation_matrix), translation_matrix)
            input_1_in_01 == Mat3MulVec(m, pad_vector(input[2]))
            input_2_in_01 == Mat3MulVec(m, pad_vector(input[3]))
            output_1_in_01 == Mat3MulVec(m, pad_vector(output[2]))
            output_2_in_01 == Mat3MulVec(m, pad_vector(output[3]))
            scale_01 == Div(output_1_in_01[1], input_1_in_01[1])
            scale_01_perpendicular == Div(output_2_in_01[2], input_2_in_01[2])
            shear_01 == Div(Sub(output_2_in_01[1], Mul(input_2_in_01[1], scale_01)),
                            output_2_in_01[2])
            scale_matrix_2d == Matrix2(scale_01, shear_01, Zero, scale_01_perpendicular)
            scale_matrix == pad_matrix(scale_matrix_2d)
        IN  [kind |-> "returned",
             printed |-> <<translation_matrix, rotation_matrix,
                           change_basis_matrix, scale_matrix>>,
             divisors |-> <<input_1_in_01[1], input_2_in_01[2], output_2_in_01[2]>>,
             matrix |-> Mat3Mul(Mat3Mul(Mat3Mul(Mat3Mul(unchange_basis_matrix,
                            scale_matrix), change_basis_matrix), rotation_matrix),
                            translation_matrix)]

\* ------------------------------------------------------------ find_markers
\* The colours a pixel takes here: the background and three markers whose
\* precedence order (255 < 256 < 65536) is the reverse of their order as
\* big-endian RGB.
Colours == {<<0, 0, 0>>, <<255, 0, 0>>, <<0, 1, 0>>, <<0, 0, 1>>}

\* a decoded RGB8 image of the given dimensions
ImagesOf(w, h) ==
    {[width |-> w, height |-> h, pixels |-> p] :
        p \in [(0..(w - 1)) \X (0..(h - 1)) -> Colours]}

get_pixel(image, x, y) == image.pixels[<<x, y>>]

ignore_color == <<0, 0, 0>>

Position(x, y) == [x |-> x, y |-> y]

Marker(pixel, position) == [pixel |-> pixel, position |-> position]

get_precedence_big_endian(pixel) == 256 * 256 * pixel[1] + 256 * pixel[2] + pixel[3]

get_precedence(pixel) ==
    LET r == pixel[1]
        g == pixel[2]
        b == pixel[3]
    IN  r + 256 * g + 256 * 256 * b

\* the test of main.rs:74
is_marker_red_only(pixel) == pixel[1] # ignore_color[1]

is_marker(pixel) == pixel # ignore_color

\* for y in 0..height, from y on, in column x
RECURSIVE scan_column(_, _, _, _)
scan_column(image, x, y, markers) ==
    IF y >= image.height THEN markers
    ELSE LET pixel == get_pixel(image, x, y)
         IN  scan_column(image, x, y + 1,
                 IF is_marker(pixel)
                 THEN Append(markers, Marker(pixel, Position(x, y)))
                 ELSE markers)

\* for x in 0..width, from x on
RECURSIVE scan_image(_, _, _)
scan_image(image, x, markers) ==
    IF x >= image.width THEN markers
    ELSE scan_image(image, x + 1, scan_column(image, x, 0, markers))

\* slice::sort_by with the comparator of main.rs:86-91: a stable sort, so a
\* marker goes after every marker already placed whose key is not greater
insert_sorted(sorted, marker) ==
    LET k == Cardinality({i \in 1..Len(sorted) :
                 get_precedence(sorted[i].pixel) <= get_precedence(marker.pixel)})
    IN  SubSeq(sorted, 1, k) \o <<marker>> \o SubSeq(sorted, k + 1, Len(sorted))

RECURSIVE sort_by(_)
sort_by(markers) ==
    IF markers = <<>> THEN <<>>
    ELSE insert_sorted(sort_by(SubSeq(markers, 1, Len(markers) - 1)),
                       markers[Len(markers)])

find_markers(image) ==
    LET markers == scan_image(image, 0, <<>>)
        sorted == sort_by(markers)
    IN  [i \in 1..Len(sorted) |-> sorted[i].position]

make_triangle(a, b, c) ==
    <<Vector2(F64(a.x), F64(a.y)), Vector2(F64(b.x), F64(b.y)),
      Vector2(F64(c.x), F64(c.y))>>

\* ------------------------------------------------------------------- state
\* pc               where the run is
\* input_uv         the file at args.input_uv: an image, or Undecodable
\* output_uv        the file at args.output_uv
\* positions        main's positions
\* input_triangle, output_triangle   the arguments of get_transform
\* matrix           what get_transform did
\* stdout           the values printed, in order
\* exit             how the process ended
VARIABLES pc, input_uv, output_uv, positions, input_triangle, output_triangle,
          matrix, stdout, exit

vars == <<pc, input_uv, output_uv, positions, input_triangle, output_triangle,
          matrix, stdout, exit>>

Undecodable == [width |-> 0, height |-> 0, pixels |-> <<>>]

Line(label, value) == [label |-> label, value |-> value]

\* ---------------------------------------------------------------------- main
Init ==
    /\ pc = "load"
    /\ \E w \in 1..MaxW, h \in 1..MaxH : input_uv \in ImagesOf(w, h) \cup {Undecodable}
    /\ \E w \in 1..MaxW, h \in 1..MaxH : output_uv \in ImagesOf(w, h)
    /\ positions = <<>>
    /\ input_triangle = None
    /\ output_triangle = None
    /\ matrix = None
    /\ stdout = <<>>
    /\ exit = "running"

\* main.rs:29-32: Reader::open(..)?, decode()?, to_rgb8()
LoadUVs ==
    /\ pc = "load"
    /\ stdout' = Append(stdout, Line("Loading UVs", None))
    /\ IF input_uv = Undecodable
       THEN pc' = "exited" /\ exit' = "Err"
       ELSE pc' = "find_markers" /\ exit' = exit
    /\ UNCHANGED <<input_uv, output_uv, positions, input_triangle,
                   output_triangle, matrix>>

\* main.rs:34-36
FindTriangles ==
    /\ pc = "find_markers"
    /\ positions' = find_markers(input_uv)
    /\ stdout' = stdout \o <<Line("Finding Triangles", None),
                             Line("positions", positions')>>
    /\ pc' = "make_triangle"
    /\ UNCHANGED <<input_uv, output_uv, input_triangle, output_triangle,
                   matrix, exit>>

\* main.rs:38-39: positions[0], positions[1], positions[2] are bounds-checked
\* indexings, which panic past the end of the Vec
MakeTriangles ==
    /\ pc = "make_triangle"
    /\ IF Len(positions) < 3
       THEN /\ pc' = "exited"
            /\ exit' = "panic: index out of bounds"
            /\ UNCHANGED <<input_triangle, output_triangle>>
       ELSE /\ input_triangle' = make_triangle(positions[1], positions[2], positions[3])
            /\ output_triangle' = make_triangle(positions[1], positions[2], positions[3])
            /\ pc' = "get_transform"
            /\ exit' = exit
    /\ UNCHANGED <<input_uv, output_uv, positions, matrix, stdout>>

\* main.rs:41-42 and the prints of main.rs:185-188
BuildMatrices ==
    /\ pc = "get_transform"
    /\ matrix' = get_transform(input_triangle, output_triangle)
    /\ IF matrix'.kind = "panic"
       THEN /\ stdout' = Append(stdout, Line("Building Matrices", None))
            /\ pc' = "exited"
            /\ exit' = "panic: unwrap on None"
       ELSE /\ stdout' = stdout \o
                  <<Line("Building Matrices", None),
                    Line("Translation matrix", matrix'.printed[1]),
                    Line("Rotation matrix", matrix'.printed[2]),
                    Line("Change of basis matrix", matrix'.printed[3]),
                    Line("Scale/shear matrix", matrix'.printed[4])>>
            /\ pc' = "print"
            /\ exit' = exit
    /\ UNCHANGED <<input_uv, output_uv, positions, input_triangle, output_triangle>>

\* main.rs:44-51
PrintMatrix ==
    /\ pc = "print"
    /\ stdout' = Append(stdout, Line("Transformation matrix", matrix.matrix))
    /\ pc' = "exited"
    /\ exit' = "Ok"
    /\ UNCHANGED <<input_uv, output_uv, positions, input_triangle,
                   output_triangle, matrix>>

Next == LoadUVs \/ FindTriangles \/ MakeTriangles \/ BuildMatrices \/ PrintMatrix

Spec == Init /\ [][Next]_vars

\* ------------------------------------------------- find_markers on its own
LocatorInit ==
    /\ pc = "find_markers"
    /\ \E w \in 1..MaxW, h \in 1..MaxH : input_uv \in ImagesOf(w, h)
    /\ output_uv = Undecodable
    /\ positions = <<>>
    /\ input_triangle = None
    /\ output_triangle = None
    /\ matrix = None
    /\ stdout = <<>>
    /\ exit = "running"

LocatorCall ==
    /\ pc = "find_markers"
    /\ positions' = find_markers(input_uv)
    /\ pc' = "located"
    /\ UNCHANGED <<input_uv, output_uv, input_triangle, output_triangle,
                   matrix, stdout, exit>>

LocatorNext == LocatorCall

LocatorSpec == LocatorInit /\ [][LocatorNext]_vars

\* ------------------------------------------------ get_transform on its own
Points == {Vector2(F64(x), F64(y)) : x \in 0..MaxX, y \in 0..MaxY}

Triangles == Points \X Points \X Points

\* get_transform applied to every pair of triangles with pixel coordinates
SolverInit ==
    /\ pc = "get_transform"
    /\ input_triangle \in Triangles
    /\ output_triangle \in Triangles
    /\ matrix = None
    /\ input_uv = Undecodable
    /\ output_uv = Undecodable
    /\ positions = <<>>
    /\ stdout = <<>>
    /\ exit = "running"

SolverCall ==
    /\ pc = "get_transform"
    /\ matrix' = get_transform(input_triangle, output_triangle)
    /\ pc' = IF matrix'.kind = "panic" THEN "panicked" ELSE "returned"
    /\ UNCHANGED <<input_uv, output_uv, positions, input_triangle,
                   output_triangle, stdout, exit>>

SolverNext == SolverCall

SolverSpec == SolverInit /\ [][SolverNext]_vars

\* ------------------------------------------------------------------- claims
\* integer coordinates of a vertex
VX(v) == v[1][1]
VY(v) == v[2][1]

\* twice the signed area of a triangle
Cross(t) ==
    (VX(t[2]) - VX(t[1])) * (VY(t[3]) - VY(t[1]))
    - (VY(t[2]) - VY(t[1])) * (VX(t[3]) - VX(t[1]))

\* three pairwise distinct, non-collinear vertices
NonDegenerate(t) == Cross(t) # 0

\* vertex 0 equal to vertex 1, or three collinear vertices
Degenerate(t) == t[1] = t[2] \/ Cross(t) = 0

AllFinite(M) == \A i \in 1..3, j \in 1..3 : is_finite(M[i][j])

MapsOnto(M, input, output) ==
    \A k \in 1..3 : Mat3MulVec(M, pad_vector(input[k])) = pad_vector(output[k])

Called == pc \in {"returned", "panicked"}

\* C1 (solver exactness): for every pair of non-degenerate triangles,
\* get_transform returns a matrix M with M * (input[i], 1) = (output[i], 1)
\* for i = 0, 1, 2.
SolverExactness ==
    (Called /\ NonDegenerate(input_triangle) /\ NonDegenerate(output_triangle))
    => /\ matrix.kind = "returned"
       /\ MapsOnto(matrix.matrix, input_triangle, output_triangle)

\* C2 (solver identity case): for every non-degenerate triangle t,
\* get_transform(t, t) returns the 3x3 identity matrix.
SolverIdentity ==
    (Called /\ input_triangle = output_triangle /\ NonDegenerate(input_triangle))
    => /\ matrix.kind = "returned"
       /\ matrix.matrix = Identity3

\* C5 (degenerate detection): called with a source or destination triangle
\* whose vertex 0 equals vertex 1 or whose vertices are collinear,
\* get_transform never returns a matrix.
DegenerateDetection ==
    (Called /\ (Degenerate(input_triangle) \/ Degenerate(output_triangle)))
    => matrix.kind # "returned"

\* C9 (basis invertibility): the basis B of get_transform is non-invertible
\* (try_inverse is None, unwrap aborts) if and only if destination vertices
\* 0 and 1 coincide.
BasisInvertibility ==
    Called => (matrix.kind = "panic" <=> output_triangle[1] = output_triangle[2])

\* C10 (zero divisors only for degenerate triangles): when B is invertible,
\* one of the divisors input_1_in_01.x, input_2_in_01.y, output_2_in_01.y is
\* zero only if the source triangle has vertex 0 equal to vertex 1 or the
\* source or destination triangle is collinear.
ZeroDivisorsOnlyDegenerate ==
    (pc = "returned" /\ \E k \in 1..3 : matrix.divisors[k] = Zero)
    => \/ input_triangle[1] = input_triangle[2]
       \/ Cross(input_triangle) = 0
       \/ Cross(output_triangle) = 0

\* the pixels of an image that are not the background colour
NonBackground(image) ==
    {p \in (0..(image.width - 1)) \X (0..(image.height - 1)) :
        image.pixels[p] # <<0, 0, 0>>}

\* C3 (locator completeness): find_markers returns exactly one position per
\* pixel whose colour is not (0,0,0): every such pixel appears, none twice,
\* no background pixel appears, and the length is the number of such pixels.
LocatorCompleteness ==
    pc = "located" =>
        /\ \A p \in NonBackground(input_uv) :
               \E i \in 1..Len(positions) : positions[i] = [x |-> p[1], y |-> p[2]]
        /\ \A i \in 1..Len(positions) :
               <<positions[i].x, positions[i].y>> \in NonBackground(input_uv)
        /\ \A i, j \in 1..Len(positions) : i # j => positions[i] # positions[j]
        /\ Len(positions) = Cardinality(NonBackground(input_uv))

\* two markers or more found in an image that also has a background pixel
LocatorCompletenessWitness ==
    /\ pc = "located"
    /\ Len(positions) >= 2
    /\ Cardinality(NonBackground(input_uv)) < input_uv.width * input_uv.height

\* the key of the claim: r + 256*g + 65536*b
Precedence(c) == c[1] + 256 * c[2] + 65536 * c[3]

ColourAt(image, position) == image.pixels[<<position.x, position.y>>]

\* column-major discovery order
DiscoveredBefore(p, q) == p.x < q.x \/ (p.x = q.x /\ p.y < q.y)

\* C4 (locator ordering): for output indices i < j, either the precedence of
\* marker i is smaller, or the precedences are equal and marker i comes first
\* in column-major discovery order.
LocatorOrdering ==
    pc = "located" =>
        \A i, j \in 1..Len(positions) :
            i < j =>
                LET ci == Precedence(ColourAt(input_uv, positions[i]))
                    cj == Precedence(ColourAt(input_uv, positions[j]))
                IN  \/ ci < cj
                    \/ ci = cj /\ DiscoveredBefore(positions[i], positions[j])

\* the sort moved a marker ahead of one discovered earlier, and two markers
\* of one colour are in the output
LocatorOrderingWitness ==
    /\ pc = "located"
    /\ \E i, j \in 1..Len(positions) :
           /\ i < j
           /\ DiscoveredBefore(positions[j], positions[i])
    /\ \E i, j \in 1..Len(positions) :
           /\ i < j
           /\ ColourAt(input_uv, positions[i]) = ColourAt(input_uv, positions[j])

\* C6 (insufficient markers): for a decoded image with fewer than 3
\* non-background pixels the run ends with an error main returns, not with
\* an indexing past the end of positions.
InsufficientMarkers ==
    (pc = "exited" /\ input_uv # Undecodable
        /\ Cardinality(NonBackground(input_uv)) < 3)
    => exit = "Err"

\* the matrices a run printed
PrintedMatrices ==
    {i \in 1..Len(stdout) : stdout[i].value # None /\ stdout[i].label # "positions"}

\* C7 (all-or-nothing output): a run either exits successfully having printed
\* a final matrix whose nine entries are finite, or exits with failure having
\* printed no matrix at all.
AllOrNothing ==
    pc = "exited" =>
        \/ /\ exit = "Ok"
           /\ stdout[Len(stdout)].label = "Transformation matrix"
           /\ AllFinite(stdout[Len(stdout)].value)
        \/ /\ exit # "Ok"
           /\ PrintedMatrices = {}

\* C8 (destination from the second image): once main has made its triangles,
\* the destination triangle is made of the first three ordered markers of the
\* second image (here: whenever that image has three markers).
DestinationFromSecondImage ==
    LET second == find_markers(output_uv)
    IN  (output_triangle # None /\ Len(second) >= 3)
        => output_triangle = make_triangle(second[1], second[2], second[3])

====
